---- MODULE Spec2Model ----
(***************************************************************************)
(* Model of src/main.py: the image classification service.                 *)
(*                                                                         *)
(* Text is modelled as a sequence of one-character strings, so that        *)
(* str.strip(), str.lower() and the `in` substring test are computed       *)
(* character by character.  The external provider (replicate.run) is an    *)
(* input: every upload carries the outcome of reading it and the outcome   *)
(* the provider gives to the species call and to the breed call.           *)
(***************************************************************************)
EXTENDS Integers, Sequences, FiniteSets, TLC

\* Largest number of files of one /batch-predict request.
MaxFiles == 2
\* Largest number of words a generated provider answer is built from.
MaxTokens == 3

(***************************************************************************)
(* Text constants                                                          *)
(***************************************************************************)
DOG == <<"d", "o", "g">>
CAT == <<"c", "a", "t">>
OTHER_ANSWER == <<"o", "t", "h", "e", "r">>
CANNOT == <<"c", "a", "n", "n", "o", "t">>
NOT_SURE == <<"n", "o", "t", " ", "s", "u", "r", "e">>
UNCLEAR == <<"u", "n", "c", "l", "e", "a", "r">>
UNCLASSIFIED == <<"u", "n", "c", "l", "a", "s", "s", "i", "f", "i", "e", "d">>
RABBIT == <<"r", "a", "b", "b", "i", "t">>
BEAR == <<"b", "e", "a", "r">>
IGUANA == <<"i", "g", "u", "a", "n", "a">>
BIRD == <<"b", "i", "r", "d">>
FISH == <<"f", "i", "s", "h">>
HORSE == <<"h", "o", "r", "s", "e">>

\* The options of the question sent to the species model, "other" replaced
\* by the label the code gives it.
SpeciesLabels == {DOG, CAT, RABBIT, BEAR, IGUANA, BIRD, FISH, UNCLASSIFIED}

\* `animal_type in ["dog", "cat"]`
DogCat == {DOG, CAT}

(***************************************************************************)
(* Python string operations                                                *)
(***************************************************************************)
Whitespace == {" ", "\t", "\n"}

UpperLetters == <<"A", "B", "C", "D", "E", "F", "G", "H", "I", "J", "K", "L", "M",
                  "N", "O", "P", "Q", "R", "S", "T", "U", "V", "W", "X", "Y", "Z">>
LowerLetters == <<"a", "b", "c", "d", "e", "f", "g", "h", "i", "j", "k", "l", "m",
                  "n", "o", "p", "q", "r", "s", "t", "u", "v", "w", "x", "y", "z">>

\* str.lower() on one character
lower_char(c) ==
    IF \E i \in 1..Len(UpperLetters) : UpperLetters[i] = c
    THEN LowerLetters[CHOOSE i \in 1..Len(UpperLetters) : UpperLetters[i] = c]
    ELSE c

\* str.lower()
lower(s) == [i \in 1..Len(s) |-> lower_char(s[i])]

RECURSIVE lstrip(_)
lstrip(s) ==
    IF Len(s) > 0 /\ s[1] \in Whitespace THEN lstrip(Tail(s)) ELSE s

RECURSIVE rstrip(_)
rstrip(s) ==
    IF Len(s) > 0 /\ s[Len(s)] \in Whitespace
    THEN rstrip(SubSeq(s, 1, Len(s) - 1))
    ELSE s

\* str.strip()
strip(s) == rstrip(lstrip(s))

\* `sub in s` for strings: scan s from the left
RECURSIVE contains(_, _)
contains(sub, s) ==
    IF Len(s) < Len(sub) THEN FALSE
    ELSE IF SubSeq(s, 1, Len(sub)) = sub THEN TRUE
    ELSE contains(sub, Tail(s))

(***************************************************************************)
(* Provider outcomes                                                       *)
(***************************************************************************)
\* An outcome of replicate.run: "raise" (the call fails), "text" (a string),
\* "list" (a ranked list), "none" (no call scripted).
Run(kind, text, items) == [kind |-> kind, text |-> text, items |-> items]
NoRun == Run("none", <<>>, <<>>)
RaiseRun == Run("raise", <<>>, <<>>)
TextRun(t) == Run("text", t, <<>>)
ListRun(items) == Run("list", <<>>, items)

\* Values of the `label` field of a ranked candidate: a string (the empty
\* string is falsy), or a non-empty list (truthy, and not hashable).
LStr(s) == [kind |-> "str", s |-> s]
LList == [kind |-> "list", s |-> "[...]"]

\* A ranked candidate: a dict that may lack either key.
Item(hasLabel, label, hasConf, conf) ==
    [hasLabel |-> hasLabel, label |-> label, hasConf |-> hasConf, confidence |-> conf]

\* Python truthiness of a label
truthy(label) == label.kind = "list" \/ (label.kind = "str" /\ label.s # "")
\* Whether a label can be a dict key
hashable(label) == label.kind = "str"

None == [kind |-> "none", breed |-> LStr(""), confidence |-> 0]
BreedInfo(breed, confidence) == [kind |-> "info", breed |-> breed, confidence |-> confidence]

(***************************************************************************)
(* classify_animal, classify_breed                                         *)
(***************************************************************************)
\* Variant of classify_animal: the answer is not lowercased
classify_animal_nolower(run) ==
    IF run.kind # "text" THEN UNCLASSIFIED
    ELSE LET result == strip(run.text)
         IN  IF \/ result = <<>>
                \/ result = OTHER_ANSWER
                \/ contains(CANNOT, result)
                \/ contains(NOT_SURE, result)
                \/ contains(UNCLEAR, result)
             THEN UNCLASSIFIED
             ELSE result

\* Variant of classify_animal: the answer is not stripped
classify_animal_nostrip(run) ==
    IF run.kind # "text" THEN UNCLASSIFIED
    ELSE LET result == lower(run.text)
         IN  IF \/ result = <<>>
                \/ result = OTHER_ANSWER
                \/ contains(CANNOT, result)
                \/ contains(NOT_SURE, result)
                \/ contains(UNCLEAR, result)
             THEN UNCLASSIFIED
             ELSE result

\* classify_animal(image_data), given the outcome of its replicate.run call.
\* A failed call, and an output that is not a string (output.strip() raises),
\* are caught by the except clause.
classify_animal(run) ==
    IF run.kind # "text" THEN UNCLASSIFIED
    ELSE LET result == lower(strip(run.text))
         IN  IF \/ result = <<>>
                \/ result = OTHER_ANSWER
                \/ contains(CANNOT, result)
                \/ contains(NOT_SURE, result)
                \/ contains(UNCLEAR, result)
             THEN UNCLASSIFIED
             ELSE result

\* The sub-model classify_breed selects
model_name(animal_type) ==
    IF animal_type = DOG THEN "dog-breed-identification" ELSE "cat-breed-classification"

\* Variant of parse_breed: the last candidate is taken, not the first
parse_breed_last(run) ==
    IF run.kind # "list" THEN None
    ELSE IF Len(run.items) = 0 THEN None
    ELSE LET top == run.items[Len(run.items)]
         IN  IF ~top.hasLabel \/ ~top.hasConf THEN None
             ELSE BreedInfo(top.label, top.confidence)

\* The parsing of the breed model's output (the body of the try block after
\* the call): None when the call raised, the output is empty, or a key of
\* element 0 is missing.
parse_breed(run) ==
    IF run.kind # "list" THEN None
    ELSE IF Len(run.items) = 0 THEN None
    ELSE LET top == run.items[1]
         IN  IF ~top.hasLabel \/ ~top.hasConf THEN None
             ELSE BreedInfo(top.label, top.confidence)

\* Variant of classify_breed: the test of animal_type is missing
classify_breed_noguard(run, animal_type) ==
    [called |-> TRUE, model |-> model_name(animal_type), info |-> parse_breed(run)]

\* classify_breed(image_data, animal_type), given the outcome that its
\* replicate.run call would have: the value returned, whether the external
\* call was made, and with which sub-model.
classify_breed(run, animal_type) ==
    IF animal_type \notin DogCat
    THEN [called |-> FALSE, model |-> "", info |-> None]
    ELSE [called |-> TRUE, model |-> model_name(animal_type), info |-> parse_breed(run)]

(***************************************************************************)
(* Inputs                                                                  *)
(***************************************************************************)
Confidences == {0, 87, 99}

\* Outcomes of the breed model's call
BreedRuns ==
    { RaiseRun,
      ListRun(<<>>),
      ListRun(<<Item(FALSE, LStr(""), TRUE, 87)>>),
      ListRun(<<Item(TRUE, LStr("poodle"), FALSE, 0)>>),
      ListRun(<<Item(TRUE, LStr(""), TRUE, 87)>>),
      ListRun(<<Item(TRUE, LList, TRUE, 87)>>),
      ListRun(<<Item(TRUE, LStr("poodle"), TRUE, 0)>>),
      ListRun(<<Item(TRUE, LStr("poodle"), TRUE, 87)>>),
      ListRun(<<Item(TRUE, LStr("siamese"), TRUE, 87), Item(TRUE, LStr("poodle"), TRUE, 99)>>) }

\* Outcomes of the species model's call, for the uploads of a request
FileSpeciesRuns ==
    { RaiseRun,
      TextRun(<<" ", "D", "o", "g">>),
      TextRun(<<"C", "A", "T", "\n">>),
      TextRun(<<"B", "i", "r", "d">>),
      TextRun(OTHER_ANSWER) }

\* Words the generated answers of the species model are built from
Tokens ==
    { <<" ">>, <<"\n">>, <<"D", "o", "g">>, <<"D", "O", "G">>, DOG, <<"C", "a", "t">>,
      OTHER_ANSWER, CANNOT, <<"n", "o", "t">>, <<"s", "u", "r", "e">>, UNCLEAR,
      <<"I">>, <<"t", "e", "l", "l">>, <<"H", "o", "r", "s", "e">> }

RECURSIVE Texts(_)
Texts(n) ==
    IF n = 0 THEN {<<>>}
    ELSE LET shorter == Texts(n - 1)
         IN  shorter \cup {t \o w : t \in shorter, w \in Tokens}

T_Dog == <<"D", "o", "g">>
T_dog_padded == <<" ", "d", "o", "g", " ">>
T_DOG == <<"D", "O", "G">>
T_I_cannot_tell == <<"I", " ", "c", "a", "n", "n", "o", "t", " ", "t", "e", "l", "l">>
T_a_dog == <<"a", " ", "d", "o", "g">>

SampleTexts ==
    { T_Dog, T_dog_padded, T_DOG, NOT_SURE, <<>>, OTHER_ANSWER, T_I_cannot_tell, T_a_dog,
      <<"\t", "O", "t", "h", "e", "r", "\n">>, <<"U", "N", "C", "L", "E", "A", "R", " ", "p", "i", "c">> }

\* Outcomes of the species model's call, for classify_animal called alone
AnimalRuns ==
    {RaiseRun, Run("object", <<>>, <<>>)}
        \cup {TextRun(t) : t \in Texts(MaxTokens) \cup SampleTexts}

\* Labels classify_breed is called with, when called alone
BreedLabels == SpeciesLabels \cup {HORSE, T_a_dog}

\* An uploaded file: whether reading it raises, its content type (None, or
\* its segments between "/"), and the provider's outcomes for it.
Upload(read, content_type, species, breed) ==
    [read |-> read, content_type |-> content_type, species |-> species, breed |-> breed]

Uploads ==
    { Upload("raise", <<>>, NoRun, NoRun),
      Upload("ok", <<>>, NoRun, NoRun) }
        \cup {Upload("ok", <<"image", "png">>, s, b) : s \in FileSpeciesRuns, b \in BreedRuns}

(***************************************************************************)
(* State                                                                   *)
(***************************************************************************)
VARIABLES
    entry,                \* the entry point running: "predict", "batch_predict",
                          \* or one of the two classify functions called alone
    files,                \* the uploads of the request
    arg,                  \* the arguments of a classify function called alone
    pc,                   \* position in the handler
    idx,                  \* index in files of the file being processed
    base64_image,         \* the data string of the current file
    animal_type,          \* the species label of the current file
    breed_info,           \* the breed result of the current file
    classified_data,      \* batch_predict's local dict
    unclassified_images,  \* batch_predict's local list
    result,               \* the AnimalClassificationResponse being built
    response,             \* what the handler returned
    log,                  \* the external calls and appended entries, in order
    prev                  \* the response of the preceding /predict request

vars == <<entry, files, arg, pc, idx, base64_image, animal_type, breed_info,
          classified_data, unclassified_images, result, response, log, prev>>

\* The empty dict {} appended for an unclassified image
EmptyObj == <<>>

\* AnimalClassificationResponse(): pydantic copies the mutable defaults, so
\* every instance starts with its own empty dict and list
AnimalClassificationResponse == [classified |-> <<>>, unclassified |-> <<>>]

NoResponse == [status |-> 0, body |-> AnimalClassificationResponse]
Ok(body) == [status |-> 200, body |-> body]
ServerError == [status |-> 500, body |-> AnimalClassificationResponse]

NoArg == [run |-> NoRun, label |-> <<>>]
NoImage == [mime |-> "", payload |-> ""]

Event(op, img, model) == [op |-> op, img |-> img, model |-> model]
SpeciesModel == "andreasjansson/blip-2"

Init ==
    /\ entry \in {"predict", "batch_predict", "classify_animal", "classify_breed"}
    /\ files \in CASE entry = "predict" -> [1..1 -> Uploads]
                   [] entry = "batch_predict" -> UNION {[1..n -> Uploads] : n \in 1..MaxFiles}
                   [] OTHER -> {<<>>}
    /\ arg \in CASE entry = "classify_animal" -> {[run |-> r, label |-> <<>>] : r \in AnimalRuns}
                 [] entry = "classify_breed" ->
                        {[run |-> r, label |-> l] : r \in BreedRuns, l \in BreedLabels}
                 [] OTHER -> {NoArg}
    /\ pc = IF entry \in {"predict", "batch_predict"} THEN "read" ELSE "call"
    /\ idx = 1
    /\ base64_image = NoImage
    /\ animal_type = <<>>
    /\ breed_info = None
    /\ classified_data = <<>>
    /\ unclassified_images = <<>>
    /\ result = AnimalClassificationResponse
    /\ response = NoResponse
    /\ log = <<>>
    /\ prev = NoResponse

(***************************************************************************)
(* Encoder, and the storing of one image's outcome                         *)
(***************************************************************************)
\* Whether the first statements of the try block raise: file.read() raises,
\* or file.content_type is None (None has no split)
read_raises(up) == up.read = "raise" \/ Len(up.content_type) = 0

\* f"data:image/{file.content_type.split('/')[-1]};base64,{encoded_image}"
encode(up) ==
    [mime |-> up.content_type[Len(up.content_type)], payload |-> "base64"]

\* The record stored for a classified image
Record(info, animal) ==
    [confidence |-> info.confidence, breed |-> info.breed.s, animal_type |-> animal]

\* `breed_info and breed_info["breed"]`
has_breed(info) == info.kind = "info" /\ truthy(info.breed)

\* Variant of dict_append: the list of a known breed is replaced
dict_append_overwrite(d, key, rec) == (key :> <<rec>>) @@ d

\* Variant of dict_append: the record is put in front of the list
dict_append_front(d, key, rec) ==
    IF key \in DOMAIN d
    THEN [d EXCEPT ![key] = <<rec>> \o @]
    ELSE (key :> <<rec>>) @@ d

\* batch_predict's `if breed_name in classified_data: ... else: ...`
dict_append(d, key, rec) ==
    IF key \in DOMAIN d
    THEN [d EXCEPT ![key] = Append(@, rec)]
    ELSE (key :> <<rec>>) @@ d

\* Variant of batch_except: no placeholder is appended
batch_except_drop(unclassified) == unclassified

\* batch_predict's except clause
batch_except(unclassified) == Append(unclassified, EmptyObj)

\* batch_predict's branches after the calls: the new classified_data and
\* unclassified_images, and whether the except clause was taken.  A breed
\* name that is not hashable raises TypeError at
\* `breed_name in classified_data`, caught by the except clause.
batch_store(cd, ui, animal, info) ==
    IF animal \in DogCat
    THEN IF has_breed(info)
         THEN IF ~hashable(info.breed)
              THEN [raised |-> TRUE, cd |-> cd, ui |-> batch_except(ui)]
              ELSE [raised |-> FALSE, ui |-> ui,
                    cd |-> dict_append(cd, info.breed.s, Record(info, animal))]
         ELSE [raised |-> FALSE, cd |-> cd, ui |-> Append(ui, EmptyObj)]
    ELSE [raised |-> FALSE, cd |-> cd, ui |-> Append(ui, EmptyObj)]

\* Variant of predict_except: the exception leaves the handler
predict_except_raise == ServerError

\* Variant of predict_except: the result is returned without a placeholder
predict_except_keep == Ok(AnimalClassificationResponse)

\* predict's except clause
predict_except == Ok([classified |-> <<>>, unclassified |-> <<EmptyObj>>])

\* predict's branches after the calls: the response returned.  A breed name
\* that is not hashable raises TypeError at `result.classified[breed_name] =`,
\* caught by the except clause.
predict_store(res, animal, info) ==
    IF animal \in DogCat
    THEN IF has_breed(info)
         THEN IF ~hashable(info.breed)
              THEN predict_except
              ELSE Ok([res EXCEPT !.classified =
                          (info.breed.s :> <<Record(info, animal)>>) @@ @])
         ELSE Ok([res EXCEPT !.unclassified = <<EmptyObj>>])
    ELSE Ok([res EXCEPT !.unclassified = <<EmptyObj>>])

(***************************************************************************)
(* POST /predict                                                           *)
(***************************************************************************)
PredictRead ==
    /\ entry = "predict" /\ pc = "read"
    /\ IF read_raises(files[1])
       THEN /\ response' = predict_except
            /\ pc' = "done"
            /\ UNCHANGED base64_image
       ELSE /\ base64_image' = encode(files[1])
            /\ pc' = "species"
            /\ UNCHANGED response
    /\ UNCHANGED <<entry, files, arg, idx, animal_type, breed_info, classified_data,
                   unclassified_images, result, log, prev>>

PredictClassifyAnimal ==
    /\ entry = "predict" /\ pc = "species"
    /\ animal_type' = classify_animal(files[1].species)
    /\ log' = Append(log, Event("species", 1, SpeciesModel))
    /\ result' = AnimalClassificationResponse
    /\ pc' = IF animal_type' \in DogCat THEN "breed" ELSE "store"
    /\ UNCHANGED <<entry, files, arg, idx, base64_image, breed_info, classified_data,
                   unclassified_images, response, prev>>

PredictClassifyBreed ==
    /\ entry = "predict" /\ pc = "breed"
    /\ LET r == classify_breed(files[1].breed, animal_type)
       IN  /\ breed_info' = r.info
           /\ log' = IF r.called THEN Append(log, Event("breed", 1, r.model)) ELSE log
    /\ pc' = "store"
    /\ UNCHANGED <<entry, files, arg, idx, base64_image, animal_type, classified_data,
                   unclassified_images, result, response, prev>>

PredictStore ==
    /\ entry = "predict" /\ pc = "store"
    /\ response' = predict_store(result, animal_type, breed_info)
    /\ result' = IF response' = predict_except THEN result ELSE response'.body
    /\ log' = Append(log, Event("entry", 1, ""))
    /\ pc' = "done"
    /\ UNCHANGED <<entry, files, arg, idx, base64_image, animal_type, breed_info,
                   classified_data, unclassified_images, prev>>

(***************************************************************************)
(* POST /batch-predict                                                     *)
(***************************************************************************)
\* The `for file in files` loop moves to the next file, or ends
NextFile ==
    /\ idx' = idx + 1
    /\ pc' = IF idx + 1 > Len(files) THEN "return" ELSE "read"
    /\ base64_image' = NoImage
    /\ animal_type' = <<>>
    /\ breed_info' = None

\* Variant of AfterException: the try statement encloses the loop
AfterException_abort ==
    /\ idx' = idx + 1
    /\ pc' = "return"
    /\ base64_image' = NoImage
    /\ animal_type' = <<>>
    /\ breed_info' = None

\* The try statement is the body of the loop: after the except clause the
\* loop goes on with the next file
AfterException == NextFile

BatchRead ==
    /\ entry = "batch_predict" /\ pc = "read"
    /\ IF read_raises(files[idx])
       THEN /\ unclassified_images' = batch_except(unclassified_images)
            /\ log' = Append(log, Event("entry", idx, ""))
            /\ AfterException
       ELSE /\ base64_image' = encode(files[idx])
            /\ pc' = "species"
            /\ UNCHANGED <<unclassified_images, log, idx, animal_type, breed_info>>
    /\ UNCHANGED <<entry, files, arg, classified_data, result, response, prev>>

\* Variant of BatchClassifyAnimal: a failed species call is made again
BatchClassifyAnimal_retry ==
    /\ entry = "batch_predict" /\ pc = "species"
    /\ animal_type' = classify_animal(files[idx].species)
    /\ log' = IF files[idx].species.kind = "raise"
              THEN log \o <<Event("species", idx, SpeciesModel), Event("species", idx, SpeciesModel)>>
              ELSE Append(log, Event("species", idx, SpeciesModel))
    /\ pc' = IF animal_type' \in DogCat THEN "breed" ELSE "store"
    /\ UNCHANGED <<entry, files, arg, idx, base64_image, breed_info, classified_data,
                   unclassified_images, result, response, prev>>

BatchClassifyAnimal ==
    /\ entry = "batch_predict" /\ pc = "species"
    /\ animal_type' = classify_animal(files[idx].species)
    /\ log' = Append(log, Event("species", idx, SpeciesModel))
    /\ pc' = IF animal_type' \in DogCat THEN "breed" ELSE "store"
    /\ UNCHANGED <<entry, files, arg, idx, base64_image, breed_info, classified_data,
                   unclassified_images, result, response, prev>>

BatchClassifyBreed ==
    /\ entry = "batch_predict" /\ pc = "breed"
    /\ LET r == classify_breed(files[idx].breed, animal_type)
       IN  /\ breed_info' = r.info
           /\ log' = IF r.called THEN Append(log, Event("breed", idx, r.model)) ELSE log
    /\ pc' = "store"
    /\ UNCHANGED <<entry, files, arg, idx, base64_image, animal_type, classified_data,
                   unclassified_images, result, response, prev>>

BatchStore ==
    /\ entry = "batch_predict" /\ pc = "store"
    /\ LET s == batch_store(classified_data, unclassified_images, animal_type, breed_info)
       IN  /\ classified_data' = s.cd
           /\ unclassified_images' = s.ui
           /\ IF s.raised THEN AfterException ELSE NextFile
    /\ log' = Append(log, Event("entry", idx, ""))
    /\ UNCHANGED <<entry, files, arg, result, response, prev>>

BatchReturn ==
    /\ entry = "batch_predict" /\ pc = "return"
    /\ result' = [classified |-> classified_data, unclassified |-> unclassified_images]
    /\ response' = Ok(result')
    /\ pc' = "done"
    /\ UNCHANGED <<entry, files, arg, idx, base64_image, animal_type, breed_info,
                   classified_data, unclassified_images, log, prev>>

\* The file of a finished /predict request is posted to /batch-predict, the
\* provider answering as before
Resubmit ==
    /\ entry = "predict" /\ pc = "done" /\ prev = NoResponse
    /\ prev' = response
    /\ entry' = "batch_predict"
    /\ pc' = "read"
    /\ idx' = 1
    /\ base64_image' = NoImage
    /\ animal_type' = <<>>
    /\ breed_info' = None
    /\ classified_data' = <<>>
    /\ unclassified_images' = <<>>
    /\ result' = AnimalClassificationResponse
    /\ response' = NoResponse
    /\ log' = <<>>
    /\ UNCHANGED <<files, arg>>

(***************************************************************************)
(* The classify functions called alone                                     *)
(***************************************************************************)
CallClassifyAnimal ==
    /\ entry = "classify_animal" /\ pc = "call"
    /\ animal_type' = classify_animal(arg.run)
    /\ log' = Append(log, Event("species", 1, SpeciesModel))
    /\ pc' = "done"
    /\ UNCHANGED <<entry, files, arg, idx, base64_image, breed_info, classified_data,
                   unclassified_images, result, response, prev>>

CallClassifyBreed ==
    /\ entry = "classify_breed" /\ pc = "call"
    /\ LET r == classify_breed(arg.run, arg.label)
       IN  /\ breed_info' = r.info
           /\ log' = IF r.called THEN Append(log, Event("breed", 1, r.model)) ELSE log
    /\ pc' = "done"
    /\ UNCHANGED <<entry, files, arg, idx, base64_image, animal_type, classified_data,
                   unclassified_images, result, response, prev>>

Next ==
    \/ PredictRead
    \/ PredictClassifyAnimal
    \/ PredictClassifyBreed
    \/ PredictStore
    \/ BatchRead
    \/ BatchClassifyAnimal
    \/ BatchClassifyBreed
    \/ BatchStore
    \/ BatchReturn
    \/ Resubmit
    \/ CallClassifyAnimal
    \/ CallClassifyBreed

Spec == Init /\ [][Next]_vars

(***************************************************************************)
(* What the specification says of an answer and of an upload               *)
(***************************************************************************)
SetMin(S) == CHOOSE x \in S : \A y \in S : x <= y
SetMax(S) == CHOOSE x \in S : \A y \in S : x >= y

\* t without its surrounding whitespace
Trimmed(t) ==
    LET nonws == {i \in 1..Len(t) : t[i] \notin Whitespace}
    IN  IF nonws = {} THEN <<>> ELSE SubSeq(t, SetMin(nonws), SetMax(nonws))

\* t trimmed and lowercased
Normal(t) ==
    LET tr == Trimmed(t)
    IN  [i \in 1..Len(tr) |->
            IF \E k \in 1..26 : tr[i] = UpperLetters[k]
            THEN LowerLetters[CHOOSE k \in 1..26 : tr[i] = UpperLetters[k]]
            ELSE tr[i]]

\* sub occurs in s
Occurs(sub, s) ==
    \E i \in 0..(Len(s) - Len(sub)) : \A k \in 1..Len(sub) : s[i + k] = sub[k]

\* n is empty, "other", or holds an uncertainty marker
Collapses(n) ==
    \/ Len(n) = 0
    \/ n = OTHER_ANSWER
    \/ Occurs(CANNOT, n) \/ Occurs(NOT_SURE, n) \/ Occurs(UNCLEAR, n)

\* The species call of the current file, or of classify_animal called alone,
\* has returned its label
LabelReturned ==
    \/ entry = "classify_animal" /\ pc = "done"
    \/ entry \in {"predict", "batch_predict"} /\ pc \in {"breed", "store"}

\* The provider's outcome that label was computed from
AnswerRun == IF entry = "classify_animal" THEN arg.run ELSE files[idx].species

\* C6: classify_animal maps the answer t to "unclassified" when t, trimmed
\* and lowercased, is empty, is "other" or contains "cannot", "not sure" or
\* "unclear", and to t trimmed and lowercased otherwise; "Dog", " dog " and
\* "DOG" give "dog"; "not sure", "", "other" and "I cannot tell" give
\* "unclassified"; a failed provider call gives "unclassified".
C6_ClassifyAnimalMapping ==
    LabelReturned =>
        /\ AnswerRun.kind # "text" => animal_type = UNCLASSIFIED
        /\ AnswerRun.kind = "text" =>
              LET n == Normal(AnswerRun.text)
              IN  animal_type = IF Collapses(n) THEN UNCLASSIFIED ELSE n
        /\ AnswerRun.kind = "text" /\ AnswerRun.text \in {T_Dog, T_dog_padded, T_DOG}
              => animal_type = DOG
        /\ AnswerRun.kind = "text"
              /\ AnswerRun.text \in {NOT_SURE, <<>>, OTHER_ANSWER, T_I_cannot_tell}
              => animal_type = UNCLASSIFIED

\* An answer with surrounding whitespace and capitals was mapped to "dog"
C6_Witness ==
    /\ entry = "classify_animal" /\ pc = "done"
    /\ arg.run = TextRun(<<" ", "D", "O", "G", "\n">>)
    /\ animal_type = DOG

\* C7 as stated: the label classify_animal returns is always one of dog, cat,
\* rabbit, bear, iguana, bird, fish, unclassified.
C7_LabelInClosedSet ==
    LabelReturned => animal_type \in SpeciesLabels

\* C7 as amended: the label classify_animal returns is "unclassified" or the
\* provider's answer trimmed and lowercased, whatever that answer is; it is
\* in the closed set whenever the trimmed and lowercased answer is one of
\* the seven species names, and for a failed call.
C7_LabelIsNormalizedAnswer ==
    LabelReturned =>
        /\ \/ animal_type = UNCLASSIFIED
           \/ /\ AnswerRun.kind = "text"
              /\ animal_type = Normal(AnswerRun.text)
              /\ Len(animal_type) > 0
        /\ AnswerRun.kind # "text" => animal_type \in SpeciesLabels
        /\ AnswerRun.kind = "text"
              /\ Normal(AnswerRun.text) \in SpeciesLabels
              => animal_type \in SpeciesLabels

\* An answer outside the options passed through classify_animal
C7_Witness ==
    /\ entry = "classify_animal" /\ pc = "done"
    /\ arg.run = TextRun(<<" ", "H", "o", "r", "s", "e">>)
    /\ animal_type = HORSE

(***************************************************************************)
(* Expected outcome of one upload                                          *)
(***************************************************************************)
\* The species label the specification gives to an outcome of the species call
ExpLabel(run) ==
    IF run.kind = "text" /\ ~Collapses(Normal(run.text))
    THEN Normal(run.text)
    ELSE UNCLASSIFIED

\* The upload is read and encoded, and its species label is "dog" or "cat"
IsDogCat(up) ==
    /\ up.read = "ok" /\ Len(up.content_type) > 0
    /\ ExpLabel(up.species) \in DogCat

\* The breed outcome gives no breed: the call raises, the list is empty,
\* element 0 lacks `label` or `confidence`, or its `label` is falsy
NoBreed(run) ==
    \/ run.kind # "list"
    \/ Len(run.items) = 0
    \/ ~run.items[1].hasLabel
    \/ ~run.items[1].hasConf
    \/ ~truthy(run.items[1].label)

\* The breed outcome gives a breed name that cannot be the key of a mapping
BreedNotKey(run) == ~NoBreed(run) /\ ~hashable(run.items[1].label)

\* The upload ends in `classified`
IsClassified(up) == IsDogCat(up) /\ ~NoBreed(up.breed) /\ ~BreedNotKey(up.breed)

ExpBreed(up) == up.breed.items[1].label.s

ExpRecord(up) ==
    [confidence |-> up.breed.items[1].confidence,
     breed |-> ExpBreed(up),
     animal_type |-> ExpLabel(up.species)]

\* A step of the pipeline fails for the upload
Fails(up) ==
    \/ up.read = "raise"
    \/ Len(up.content_type) = 0
    \/ up.species.kind # "text"
    \/ /\ IsDogCat(up)
       /\ \/ up.breed.kind # "list"
          \/ /\ Len(up.breed.items) > 0
             /\ (~up.breed.items[1].hasLabel \/ ~up.breed.items[1].hasConf)
          \/ BreedNotKey(up.breed)

\* The records expected under breed b for the first n uploads of fs, in order
RECURSIVE ExpBucket(_, _, _)
ExpBucket(fs, n, b) ==
    IF n = 0 THEN <<>>
    ELSE IF IsClassified(fs[n]) /\ ExpBreed(fs[n]) = b
         THEN Append(ExpBucket(fs, n - 1, b), ExpRecord(fs[n]))
         ELSE ExpBucket(fs, n - 1, b)

ExpKeys(fs, n) == {ExpBreed(fs[i]) : i \in {j \in 1..n : IsClassified(fs[j])}}

ExpClassified(fs, n) == [b \in ExpKeys(fs, n) |-> ExpBucket(fs, n, b)]

ExpUnclassified(fs, n) ==
    [k \in 1..Cardinality({j \in 1..n : ~IsClassified(fs[j])}) |-> EmptyObj]

\* fs without its i-th element
RemoveAt(fs, i) == SubSeq(fs, 1, i - 1) \o SubSeq(fs, i + 1, Len(fs))

RECURSIVE SumLens(_, _)
SumLens(d, keys) ==
    IF keys = {} THEN 0
    ELSE LET k == CHOOSE x \in keys : TRUE
         IN  Len(d[k]) + SumLens(d, keys \ {k})

\* Number of entries of a pair of buckets
Total(classified, unclassified) == SumLens(classified, DOMAIN classified) + Len(unclassified)

\* Number of files of the batch whose processing has ended
Completed == IF pc \in {"return", "done"} THEN Len(files) ELSE idx - 1

PlaceholderOnly == [classified |-> <<>>, unclassified |-> <<EmptyObj>>]

(***************************************************************************)
(* C1, C2, C3, C10                                                         *)
(***************************************************************************)
\* Some bucket of classified grew by one record, nothing else changed
OneRecordAdded(old, new) ==
    /\ DOMAIN old \subseteq DOMAIN new
    /\ \E b \in DOMAIN new :
          /\ IF b \in DOMAIN old THEN Len(new[b]) = Len(old[b]) + 1 ELSE Len(new[b]) = 1
          /\ \A c \in DOMAIN new \ {b} : c \in DOMAIN old /\ new[c] = old[c]

C1_Count ==
    entry = "batch_predict" =>
        /\ Total(classified_data, unclassified_images) = Completed
        /\ pc = "done" =>
              /\ response.status = 200
              /\ Total(response.body.classified, response.body.unclassified) = Len(files)

C1_Step ==
    (entry = "batch_predict" /\ pc # "return") =>
        IF idx' = idx + 1
        THEN \/ /\ unclassified_images' = Append(unclassified_images, EmptyObj)
                /\ classified_data' = classified_data
             \/ /\ unclassified_images' = unclassified_images
                /\ OneRecordAdded(classified_data, classified_data')
        ELSE /\ unclassified_images' = unclassified_images
             /\ classified_data' = classified_data

\* C1: batch_predict returns as many entries as there are images, whatever
\* the outcome of each step: the lengths of the lists of `classified` plus
\* the length of `unclassified` is the number of images, and each image adds
\* exactly one entry, to one of the two.
C1_OneEntryPerImage == []C1_Count /\ [][C1_Step]_vars

\* A batch of two files ended with one record and one placeholder
C1_Witness ==
    /\ entry = "batch_predict" /\ pc = "done" /\ Len(files) = 2
    /\ Len(response.body.unclassified) = 1
    /\ SumLens(response.body.classified, DOMAIN response.body.classified) = 1
    /\ Fails(files[1])

\* C2: predict never ends in an error: it returns a normal result, and when
\* a step fails (reading, encoding, the species call, the breed call, a
\* missing field, storing the record) the result has an empty `classified`
\* and one empty placeholder in `unclassified`.
C2_PredictSwallowsFailures ==
    entry = "predict" =>
        /\ response.status \in {0, 200}
        /\ pc = "done" =>
              /\ response.status = 200
              /\ Fails(files[1]) => response.body = PlaceholderOnly

\* predict ended after a breed name that cannot be stored
C2_Witness ==
    /\ entry = "predict" /\ pc = "done"
    /\ IsDogCat(files[1]) /\ BreedNotKey(files[1].breed)
    /\ response = Ok(PlaceholderOnly)

\* C3: in batch_predict a file whose processing fails gives one placeholder,
\* the files after it are processed, the entries of the other files are
\* those they give without the failing file, and the handler returns a
\* normal result.
C3_FailureIsolated ==
    entry = "batch_predict" =>
        /\ response.status \in {0, 200}
        /\ pc = "done" =>
              /\ response.status = 200
              /\ \A i \in 1..Len(files) :
                    /\ \E p \in 1..Len(log) : log[p] = Event("entry", i, "")
                    /\ Fails(files[i]) =>
                          LET others == RemoveAt(files, i)
                              n == Len(files) - 1
                          IN  /\ response.body.classified = ExpClassified(others, n)
                              /\ response.body.unclassified =
                                    Append(ExpUnclassified(others, n), EmptyObj)

\* The first of two files failed and the second was classified
C3_Witness ==
    /\ entry = "batch_predict" /\ pc = "done" /\ Len(files) = 2
    /\ Fails(files[1]) /\ IsClassified(files[2])
    /\ DOMAIN response.body.classified = {ExpBreed(files[2])}
    /\ response.body.unclassified = <<EmptyObj>>

\* C10: batch_predict on one file returns what predict returns on that file,
\* for every outcome of the read, the species call and the breed call.
C10_BatchOfOneIsPredict ==
    (entry = "batch_predict" /\ pc = "done" /\ prev # NoResponse) => response = prev

\* Both handlers ran on the same classified file
C10_Witness ==
    /\ entry = "batch_predict" /\ pc = "done" /\ prev # NoResponse
    /\ IsClassified(files[1])
    /\ DOMAIN prev.body.classified = {ExpBreed(files[1])}

(***************************************************************************)
(* C4, C5, C8, C9                                                          *)
(***************************************************************************)
Handlers == {"predict", "batch_predict"}

\* No breed call is logged for a file whose species label is not dog or cat
C4_NoBreedCall ==
    /\ entry \in Handlers =>
          \A p \in 1..Len(log) :
              log[p].op = "breed" => ExpLabel(files[log[p].img].species) \in DogCat
    /\ (entry \in Handlers /\ pc = "store" /\ animal_type \notin DogCat) =>
          /\ breed_info = None
          /\ \A p \in 1..Len(log) : ~(log[p].op = "breed" /\ log[p].img = idx)
    /\ (entry = "classify_breed" /\ pc = "done" /\ arg.label \notin DogCat) =>
          /\ breed_info = None
          /\ log = <<>>

\* Storing the outcome of such a file adds one placeholder and nothing else
C4_Step ==
    (entry \in Handlers /\ pc = "store" /\ animal_type \notin DogCat) =>
        IF entry = "predict"
        THEN response' = Ok(PlaceholderOnly)
        ELSE /\ unclassified_images' = Append(unclassified_images, EmptyObj)
             /\ classified_data' = classified_data

\* C4: for a file whose species label is neither "dog" nor "cat" the breed
\* capability is never invoked and the file's entry is one empty placeholder
\* in `unclassified`, whatever the breed capability would have returned;
\* classify_breed returns the null result without an external call when
\* given such a label.
C4_NonDogCatSkipsBreed == []C4_NoBreedCall /\ [][C4_Step]_vars

\* A bird whose breed call would have named a breed ended as a placeholder
C4_Witness ==
    /\ entry = "batch_predict" /\ pc = "done" /\ Len(files) = 1
    /\ files[1].species = TextRun(<<"B", "i", "r", "d">>)
    /\ ~NoBreed(files[1].breed)
    /\ response = Ok(PlaceholderOnly)
    /\ log = <<Event("species", 1, SpeciesModel), Event("entry", 1, "")>>

\* The storing step of a dog or cat, given which breed outcomes count as
\* giving no breed: a placeholder for those, and for the others the record
\* of element 0 appended under its label.
BreedStep(nobreed(_)) ==
    (entry \in Handlers /\ pc = "store" /\ animal_type \in DogCat) =>
        LET up == files[idx]
            rec == [confidence |-> up.breed.items[1].confidence,
                    breed |-> up.breed.items[1].label.s,
                    animal_type |-> animal_type]
            b == up.breed.items[1].label.s
        IN  IF nobreed(up.breed)
            THEN IF entry = "predict"
                 THEN response' = Ok(PlaceholderOnly)
                 ELSE /\ unclassified_images' = Append(unclassified_images, EmptyObj)
                      /\ classified_data' = classified_data
            ELSE IF entry = "predict"
                 THEN response' = Ok([classified |-> (b :> <<rec>>), unclassified |-> <<>>])
                 ELSE /\ unclassified_images' = unclassified_images
                      /\ DOMAIN classified_data' = DOMAIN classified_data \cup {b}
                      /\ \A c \in DOMAIN classified_data \ {b} :
                            classified_data'[c] = classified_data[c]
                      /\ classified_data'[b] =
                            IF b \in DOMAIN classified_data
                            THEN Append(classified_data[b], rec)
                            ELSE <<rec>>

NoBreedOrNotKey(run) == NoBreed(run) \/ BreedNotKey(run)

\* C5 as stated: a dog or cat whose breed call raises, returns an empty
\* list, or returns an element 0 lacking `label` or `confidence` or with a
\* falsy `label`, becomes one placeholder and adds no key; every other dog
\* or cat is stored under the label of element 0 with the record
\* {confidence, breed, animal_type}.
C5_BreedOutcome == [][BreedStep(NoBreed)]_vars

\* C5 as amended: the same, the outcomes that become a placeholder also
\* holding those whose element 0 has a truthy `label` that is not hashable.
C5_BreedOutcomeHashable == [][BreedStep(NoBreedOrNotKey)]_vars

\* A cat whose breed call returned two candidates is stored under the first
C5_Witness ==
    /\ entry = "batch_predict" /\ pc = "done" /\ Len(files) = 1
    /\ ExpLabel(files[1].species) = CAT
    /\ Len(files[1].breed.items) = 2
    /\ response.body.unclassified = <<>>
    /\ response.body.classified =
          ("siamese" :> <<[confidence |-> 87, breed |-> "siamese", animal_type |-> CAT]>>)

\* C8: in batch_predict the list under every breed b holds the records of
\* the images classified to b, in the order of submission, none merged or
\* dropped; every record under b has breed b and a dog or cat animal_type;
\* a key is present only if an image was classified to it.
C8_BucketOrder ==
    entry = "batch_predict" =>
        /\ DOMAIN classified_data = ExpKeys(files, Completed)
        /\ \A b \in DOMAIN classified_data :
              /\ classified_data[b] = ExpBucket(files, Completed, b)
              /\ Len(classified_data[b]) > 0
              /\ \A k \in 1..Len(classified_data[b]) :
                    /\ classified_data[b][k].breed = b
                    /\ classified_data[b][k].animal_type \in DogCat
        /\ pc = "done" => response.body.classified = ExpClassified(files, Len(files))

\* Two files of one breed with different records are returned in order
C8_Witness ==
    /\ entry = "batch_predict" /\ pc = "done" /\ Len(files) = 2
    /\ "poodle" \in DOMAIN response.body.classified
    /\ Len(response.body.classified["poodle"]) = 2
    /\ response.body.classified["poodle"][1] = ExpRecord(files[1])
    /\ response.body.classified["poodle"][2] = ExpRecord(files[2])
    /\ ExpRecord(files[1]) # ExpRecord(files[2])

\* Positions in log of the events op of file i
Events(op, i) == {p \in 1..Len(log) : log[p].op = op /\ log[p].img = i}

\* The species call of file i has been made
SpeciesDone(i) ==
    /\ ~read_raises(files[i])
    /\ \/ i < idx
       \/ pc \in {"return", "done"}
       \/ i = idx /\ pc \in {"breed", "store"}

\* C9: within one batch_predict request the species capability is invoked at
\* most once per image, and once when the upload was read and encoded; the
\* breed capability at most once, after the species call of that image
\* returned "dog" or "cat"; no call for an image starts before the entry of
\* the image before it is appended; no call is repeated.
C9_CallOrder ==
    entry = "batch_predict" =>
        /\ \A i \in 1..Len(files) :
              /\ Cardinality(Events("species", i)) = IF SpeciesDone(i) THEN 1 ELSE 0
              /\ Cardinality(Events("breed", i)) <= 1
              /\ Cardinality(Events("entry", i)) <= 1
              /\ \A q \in Events("breed", i) :
                    /\ \E p \in Events("species", i) : p < q
                    /\ ExpLabel(files[i].species) \in DogCat
                    /\ log[q].model = IF ExpLabel(files[i].species) = DOG
                                      THEN "dog-breed-identification"
                                      ELSE "cat-breed-classification"
              /\ \A q \in Events("entry", i) :
                    \A p \in Events("species", i) \cup Events("breed", i) : p < q
              /\ i > 1 =>
                    \A q \in Events("species", i) \cup Events("breed", i) :
                        \E p \in Events("entry", i - 1) : p < q
        /\ \A p \in 1..Len(log) : \A q \in 1..Len(log) : p < q => log[p].img <= log[q].img

\* Two files were processed with both calls each, one file after the other
C9_Witness ==
    /\ entry = "batch_predict" /\ pc = "done" /\ Len(files) = 2
    /\ Len(log) = 6
    /\ log[2].op = "breed" /\ log[3] = Event("entry", 1, "")
    /\ log[4] = Event("species", 2, SpeciesModel) /\ log[5].op = "breed"

====
